---- MODULE Spec2Model ----
(***************************************************************************)
(* Model of the Moho recursive attestation engine (alpenlabs/moho):        *)
(*   crates/recursive-proof/src/{statements,transition,program,errors}.rs  *)
(*   crates/types/src/{state,relation,id,ssz_merkle_utils,merkle}.rs       *)
(*                                                                         *)
(* 32-byte digests are modelled as sequences of integers that spell out    *)
(* the pre-image, so SHA-256 is an injective (collision-free) constructor. *)
(***************************************************************************)
EXTENDS Integers, Sequences, FiniteSets, TLC

\* ------------------------------------------------------------------ bounds
\* Number of distinct state references (StateReference values).
NumRefs == 2
\* Number of distinct Schnorr key pairs.
NumKeys == 1
\* Largest leaf index an inclusion proof may carry.
MaxIndex == 5
\* Number of entries a container holds at most: the model's stand-in for
\* MAX_EXPORT_ENTRIES (1 << 12).
MaxEntries == 2
\* Largest number of leaves handed to the Merkle helpers.
MaxLeaves == 4

\* ------------------------------------------------------------- data model
Refs == 1..NumRefs
Keys == 1..NumKeys

\* strata_predicate::PredicateKey: a tagged value {kind, condition}.
AlwaysAccept == [kind |-> "AlwaysAccept", key |-> 0]
Bip340Schnorr(k) == [kind |-> "Bip340Schnorr", key |-> k]
PredicateKey == {AlwaysAccept} \cup {Bip340Schnorr(k) : k \in Keys}

\* The all-zero chunk used as padding leaf.
ZeroChunk == <<0>>

\* sha256(left || right): injective on pairs of digests.
hash_internal(left, right) == <<4, Len(left)>> \o left \o right

\* tree_hash_root of a PredicateKey (the leaf of the next_predicate field).
KindCode(p) ==
    CASE p.kind = "AlwaysAccept" -> 0
      [] p.kind = "Bip340Schnorr" -> 1
predicate_hash(p) == <<2, KindCode(p), p.key>>

\* InnerStateCommitment::from([id; 32]): an opaque 32-byte value.
InnerStateCommitment(id) == <<1, id>>

\* ExportEntry::new(entry_id, payload)
ExportEntry(entry_id, payload) == [entry_id |-> entry_id, payload |-> payload]

\* ExportContainer::new(container_id, common_payload, entries)
ExportContainer(container_id, common_payload, entries) ==
    [container_id |-> container_id, common_payload |-> common_payload,
     entries |-> entries]

\* ExportState::new(containers)
ExportState(containers) == [containers |-> containers]

\* Faulty variant of push: the new item is put in front of the list.
push_at_front(list, x) ==
    IF Len(list) >= MaxEntries THEN [tag |-> "Err"]
    ELSE [tag |-> "Ok", value |-> <<x>> \o list]

\* VariableList::push: Err once the list holds its maximum number of items.
push(list, x) ==
    IF Len(list) >= MaxEntries THEN [tag |-> "Err"]
    ELSE [tag |-> "Ok", value |-> Append(list, x)]

\* containers.iter_mut().find(|c| c.container_id == container_id): the
\* position of the first container with that id, 0 for None.
find(containers, container_id) ==
    LET hits == {i \in 1..Len(containers) : containers[i].container_id = container_id}
    IN  IF hits = {} THEN 0 ELSE CHOOSE i \in hits : \A j \in hits : i <= j

\* ExportState::add_entry.  The call returns () or panics in expect(); `state`
\* is the ExportState it leaves behind.
add_entry(self, container_id, entry) ==
    LET i == find(self.containers, container_id)
    IN  IF i = 0
          THEN [tag |-> "returned", value |-> "()", state |-> self]
          ELSE LET pushed == push(self.containers[i].entries, entry)
               IN  IF pushed.tag = "Ok"
                     THEN [tag |-> "returned", value |-> "()",
                           state |-> [self EXCEPT !.containers[i].entries = pushed.value]]
                     ELSE [tag |-> "panicked", value |-> "entry out of bound",
                           state |-> self]

\* Concatenation of a sequence of sequences.
RECURSIVE Concat(_)
Concat(seqs) == IF seqs = <<>> THEN <<>> ELSE Head(seqs) \o Concat(Tail(seqs))

\* tree_hash_root of an ExportEntry, an ExportContainer and an ExportState:
\* each digest spells out the hashed value, lists with their length mixed in.
export_entry_root(x) == <<5, x.entry_id, Len(x.payload)>> \o x.payload
export_container_root(c) ==
    <<6, c.container_id, Len(c.common_payload)>> \o c.common_payload
        \o <<Len(c.entries)>>
        \o Concat([i \in 1..Len(c.entries) |-> export_entry_root(c.entries[i])])
export_state_root(e) ==
    <<3, Len(e.containers)>>
        \o Concat([i \in 1..Len(e.containers) |-> export_container_root(e.containers[i])])

\* Faulty variant of MohoState: the export state handed in is dropped.
MohoState_dropping_exports(inner, pred, export_state) ==
    [inner_state |-> inner, next_predicate |-> pred, export_state |-> ExportState(<<>>)]

\* MohoState::new(inner_state, next_predicate, export_state)
MohoState(inner, pred, export_state) ==
    [inner_state |-> inner, next_predicate |-> pred, export_state |-> export_state]

\* The three field roots of the outer state, in field order.
ssz_field_roots(s) ==
    << s.inner_state, predicate_hash(s.next_predicate), export_state_root(s.export_state) >>

\* The four leaves of the outer tree: three field roots and the zero chunk.
ssz_field_leaves(s) == ssz_field_roots(s) \o <<ZeroChunk>>

\* Faulty variant of compute_commitment: the third field root is hashed in
\* without the zero-chunk padding leaf.
compute_commitment_unpadded(s) ==
    LET l == ssz_field_roots(s)
    IN  hash_internal(hash_internal(l[1], l[2]), l[3])

\* MohoState::compute_commitment: root of the binary tree over the leaves.
compute_commitment(s) ==
    LET l == ssz_field_leaves(s)
    IN  hash_internal(hash_internal(l[1], l[2]), hash_internal(l[3], l[4]))

\* ------------------------------------------------ SSZ field merkle helpers
\* Hash adjacent pairs of one level into the next level up.
next_level(level) ==
    [i \in 1..(Len(level) \div 2) |-> hash_internal(level[2 * i - 1], level[2 * i])]

\* usize::next_power_of_two
RECURSIVE pow2_at_least(_, _)
pow2_at_least(n, p) == IF p >= n THEN p ELSE pow2_at_least(n, 2 * p)
next_power_of_two(n) == pow2_at_least(n, 1)

\* Vec::resize(next_pow2, [0u8; 32])
pad_leaves(leaves) ==
    [i \in 1..next_power_of_two(Len(leaves)) |->
        IF i <= Len(leaves) THEN leaves[i] ELSE ZeroChunk]

\* SszFieldMerkle::build_branch: the loop over levels, bottom-up.
\* current_index is 0-based as in the source; sequences are 1-based.
RECURSIVE build_branch_loop(_, _, _)
build_branch_loop(current_level, current_index, branch) ==
    IF Len(current_level) <= 1 THEN branch
    ELSE LET sibling_index == IF current_index % 2 = 0 THEN current_index + 1
                                                       ELSE current_index - 1
             sib == IF sibling_index < Len(current_level)
                      THEN current_level[sibling_index + 1] ELSE ZeroChunk
         IN  build_branch_loop(next_level(current_level), current_index \div 2,
                               Append(branch, sib))

build_branch(leaves, leaf_index) ==
    build_branch_loop(pad_leaves(leaves), leaf_index, <<>>)

\* SszFieldMerkle::generate_proof
generate_proof(leaves, leaf_index) ==
    [index |-> leaf_index % 256, cohashes |-> build_branch(leaves, leaf_index)]

\* Faulty variant of verify_proof: every node is taken for a left child.
verify_proof_ignoring_side(root_hash, merkle_proof, value) ==
    LET fold[k \in 0..Len(merkle_proof.cohashes)] ==
            IF k = 0 THEN value
            ELSE hash_internal(fold[k - 1], merkle_proof.cohashes[k])
    IN  fold[Len(merkle_proof.cohashes)] = root_hash

\* SszFieldMerkle::verify_proof: the loop over the branch, bottom-up.
RECURSIVE verify_proof_loop(_, _, _)
verify_proof_loop(current_hash, current_index, branch) ==
    IF branch = <<>> THEN current_hash
    ELSE LET sibling == Head(branch)
             nxt == IF current_index % 2 = 0
                      THEN hash_internal(current_hash, sibling)
                      ELSE hash_internal(sibling, current_hash)
         IN  verify_proof_loop(nxt, current_index \div 2, Tail(branch))

\* Faulty variant of verify_proof: the walk stops as soon as the running hash
\* equals the root.
verify_proof_stopping_at_root(root_hash, merkle_proof, value) ==
    \E k \in 0..Len(merkle_proof.cohashes) :
        verify_proof_loop(value, merkle_proof.index,
                          SubSeq(merkle_proof.cohashes, 1, k)) = root_hash

\* SszFieldMerkle::verify_proof.  The proof record carries leaf_index in
\* `index` and branch in `cohashes`.
verify_proof(root_hash, merkle_proof, value) ==
    verify_proof_loop(value, merkle_proof.index, merkle_proof.cohashes) = root_hash

\* MerkleTree::compute_root: the loop over levels, bottom-up.
RECURSIVE compute_root_levels(_)
compute_root_levels(current_level) ==
    IF Len(current_level) <= 1 THEN current_level[1]
    ELSE compute_root_levels(next_level(current_level))

\* MerkleTree::compute_root
compute_root(leaf_list) ==
    IF leaf_list = <<>> THEN ZeroChunk
    ELSE compute_root_levels(pad_leaves(leaf_list))

\* MerkleTree::verify_proof: the loop over the path, bottom-up.
RECURSIVE MerkleTree_verify_proof_loop(_, _, _)
MerkleTree_verify_proof_loop(current_hash, current_index, path) ==
    IF path = <<>> THEN current_hash
    ELSE LET sibling == Head(path)
             nxt == IF current_index % 2 = 0
                      THEN hash_internal(current_hash, sibling)
                      ELSE hash_internal(sibling, current_hash)
         IN  MerkleTree_verify_proof_loop(nxt, current_index \div 2, Tail(path))

\* MerkleTree::verify_proof.  The proof record carries leaf_index in `index`
\* and path in `cohashes`.
MerkleTree_verify_proof(root_hash, merkle_proof, value) ==
    MerkleTree_verify_proof_loop(value, merkle_proof.index, merkle_proof.cohashes)
        = root_hash

\* --------------------------------------------------- transitions and proofs
\* StateRefAttestation::new(reference, commitment)
StateRefAttestation(reference, commitment) ==
    [reference |-> reference, commitment |-> commitment]

\* Transition::new(from, to)
Transition(from, to) == [from_state |-> from, to_state |-> to]

\* MohoTransitionWithProof::new(transition, proof)
MohoTransitionWithProof(transition, proof) ==
    [transition |-> transition, proof |-> proof]

\* A witness is either a BIP-340 signature made with the secret key of
\* `signer` over the bytes `msg`, or (signer = 0) bytes that are no valid
\* signature under any key.  Signatures in the model sign the encoding of a
\* bare transition: a signature cannot sign bytes that contain itself.
Signature(signer, msg) == [signer |-> signer, msg |-> msg]

\* ssz_encode(&transition): the fixed-size part only.
ssz_encode_transition(t) == [fixed |-> t, variable |-> <<>>]

\* ssz_encode(&transition_with_proof): the transition followed by the
\* variable-size proof bytes.
ssz_encode_with_proof(tw) == [fixed |-> tw.transition, variable |-> <<tw.proof>>]

\* tests::sign_transition: the witness an honest prover attaches.
sign_transition(transition, signing_key) ==
    Signature(signing_key, ssz_encode_transition(transition))

\* PredicateKey::verify_claim_witness(claim, witness)
verify_claim_witness(pred, claim, witness) ==
    CASE pred.kind = "AlwaysAccept" -> TRUE
      [] pred.kind = "Bip340Schnorr" ->
            witness.signer = pred.key /\ witness.msg = claim

\* MohoTransitionWithProof::verify: Ok(()) is TRUE, Err(InvalidProofError) FALSE.
verify(tw, verifier) ==
    LET public_values == ssz_encode_with_proof(tw)
    IN  verify_claim_witness(verifier, public_values, tw.proof)

\* Faulty variant of chain: the adjacency of the two transitions is not checked.
chain_without_adjacency_check(self, next) ==
    [tag |-> "Ok",
     value |-> [from_state |-> self.from_state, to_state |-> next.to_state]]

\* Faulty variant of chain: the result starts where `next` starts.
chain_from_next_start(self, next) ==
    IF self.to_state = next.from_state
      THEN [tag |-> "Ok",
            value |-> [from_state |-> next.from_state, to_state |-> next.to_state]]
      ELSE [tag |-> "Err",
            first_end_state |-> self.to_state,
            second_start_state |-> next.from_state]

\* Transition::chain
chain(self, next) ==
    IF self.to_state = next.from_state
      THEN [tag |-> "Ok",
            value |-> [from_state |-> self.from_state, to_state |-> next.to_state]]
      ELSE [tag |-> "Err",
            first_end_state |-> self.to_state,
            second_start_state |-> next.from_state]

\* Transition::is_no_op
is_no_op(t) == t.from_state = t.to_state

\* --------------------------------------------------------------- the driver
\* compute_root_no_prefix: fold the cohashes bottom-up; flags & 1 selects the
\* side, flags >>= 1 moves one level up.
RECURSIVE compute_root_loop(_, _, _)
compute_root_loop(cur, flags, cohashes) ==
    IF cohashes = <<>> THEN cur
    ELSE LET co == Head(cohashes)
             nxt == IF flags % 2 = 1 THEN hash_internal(co, cur)
                                     ELSE hash_internal(cur, co)
         IN  compute_root_loop(nxt, flags \div 2, Tail(cohashes))

compute_root_no_prefix(proof, leaf) ==
    compute_root_loop(leaf, proof.index, proof.cohashes)

\* Faulty variant of inclusion_check: the early return on a root mismatch is lost.
inclusion_check_never_fails(input) == TRUE

\* Faulty variant of inclusion_check: the leaf is the hash of moho_predicate.
inclusion_check_of_moho_predicate(input) ==
    compute_root_no_prefix(input.step_predicate_merkle_proof,
                           predicate_hash(input.moho_predicate))
        = input.incremental_step_proof.transition.from_state.commitment

\* Step 1 of verify_and_chain_transition: computed_root == expected_root.
inclusion_check(input) ==
    LET next_predicate_hash == predicate_hash(input.step_predicate)
        expected_root == input.incremental_step_proof.transition.from_state.commitment
        computed_root ==
            compute_root_no_prefix(input.step_predicate_merkle_proof, next_predicate_hash)
    IN  computed_root = expected_root

\* Faulty variant of step_check: the step proof is verified under moho_predicate.
step_check_under_moho_predicate(input) ==
    verify(input.incremental_step_proof, input.moho_predicate)

\* Step 2: the incremental step proof verifies under the step predicate.
step_check(input) == verify(input.incremental_step_proof, input.step_predicate)

\* Step 3, first half: the previous recursive proof verifies under moho_predicate.
recursive_check(input) == verify(input.prev_recursive_proof.value, input.moho_predicate)

\* errors.rs: the variants of MohoError.
MohoError ==
    {"InvalidMohoChain", "InvalidIncrementalProof", "InvalidRecursiveProof",
     "InvalidMerkleProof"}

Ok(t) == [tag |-> "Ok", value |-> t]

\* Faulty variant of verify_and_chain_transition: the step transition is
\* returned even when a previous proof is given.
verify_and_chain_transition_returning_step(input) ==
    IF ~inclusion_check(input) THEN [tag |-> "InvalidMerkleProof"]
    ELSE IF ~step_check(input)
      THEN [tag |-> "InvalidIncrementalProof",
            transition |-> input.incremental_step_proof.transition]
    ELSE IF input.prev_recursive_proof.some /\ ~recursive_check(input)
      THEN [tag |-> "InvalidRecursiveProof",
            transition |-> input.prev_recursive_proof.value.transition]
    ELSE Ok(input.incremental_step_proof.transition)

\* Faulty variant of verify_and_chain_transition: the previous proof is
\* verified before the step proof.
verify_and_chain_transition_previous_first(input) ==
    IF ~inclusion_check(input) THEN [tag |-> "InvalidMerkleProof"]
    ELSE IF input.prev_recursive_proof.some /\ ~recursive_check(input)
      THEN [tag |-> "InvalidRecursiveProof",
            transition |-> input.prev_recursive_proof.value.transition]
    ELSE IF ~step_check(input)
      THEN [tag |-> "InvalidIncrementalProof",
            transition |-> input.incremental_step_proof.transition]
    ELSE LET step_t == input.incremental_step_proof.transition
         IN  IF ~input.prev_recursive_proof.some THEN Ok(step_t)
             ELSE LET r == chain(input.prev_recursive_proof.value.transition, step_t)
                  IN  IF r.tag = "Ok" THEN Ok(r.value)
                      ELSE [tag |-> "InvalidMohoChain",
                            first_end_state |-> r.first_end_state,
                            second_start_state |-> r.second_start_state]

\* verify_and_chain_transition
verify_and_chain_transition(input) ==
    IF ~inclusion_check(input) THEN [tag |-> "InvalidMerkleProof"]
    ELSE IF ~step_check(input)
      THEN [tag |-> "InvalidIncrementalProof",
            transition |-> input.incremental_step_proof.transition]
    ELSE LET step_t == input.incremental_step_proof.transition
         IN  IF ~input.prev_recursive_proof.some THEN Ok(step_t)
             ELSE IF ~recursive_check(input)
               THEN [tag |-> "InvalidRecursiveProof",
                     transition |-> input.prev_recursive_proof.value.transition]
             ELSE LET prev_t == input.prev_recursive_proof.value.transition
                      r == chain(prev_t, step_t)
                  IN  IF r.tag = "Ok" THEN Ok(r.value)
                      ELSE [tag |-> "InvalidMohoChain",
                            first_end_state |-> r.first_end_state,
                            second_start_state |-> r.second_start_state]

\* ------------------------------------------------------ the inputs explored
\* tests::create_state(id, predicate): inner = [id; 32], exports empty.
create_state(id, predicate) ==
    MohoState(InnerStateCommitment(id), predicate, ExportState(<<>>))

\* Predicates that the history may have installed as next_predicate.
InstalledPredicates == {AlwaysAccept, Bip340Schnorr(1)}

\* tests::attestation(id, state)
attestation(id, state) ==
    StateRefAttestation(id, compute_commitment(state))

\* tests::transition_with_predicate: the state at reference id has inner
\* commitment [id; 32]; both endpoints wrap the same predicate.
transition_with_predicate(from, to, predicate) ==
    Transition(attestation(from, create_state(from, predicate)),
               attestation(to, create_state(to, predicate)))

Transitions ==
    {transition_with_predicate(a, b, p) : a \in Refs, b \in Refs, p \in InstalledPredicates}

\* Witness bytes attached to a transition: a signature over its encoding by
\* one of the keys, bytes that are no signature (signer 0), or a signature by
\* key 1 over the encoding of another transition (the reversed one).
ProofsFor(t) ==
    {sign_transition(t, k) : k \in 0..NumKeys}
        \cup {sign_transition(Transition(t.to_state, t.from_state), 1)}

TransitionsWithProof ==
    UNION {{MohoTransitionWithProof(t, w) : w \in ProofsFor(t)} : t \in Transitions}

None == [some |-> FALSE]
Some(v) == [some |-> TRUE, value |-> v]

\* tests::create_predicate_inclusion_proof(from_state): the branch of leaf 1
\* of the state the step starts from.
create_predicate_inclusion_proof(state) ==
    generate_proof(ssz_field_leaves(state), 1)

\* The inclusion proofs offered with a step that starts at reference `from`:
\* the honest branch carried with any leaf index, and a truncated branch.
InclusionProofsFor(from) ==
    LET honest == create_predicate_inclusion_proof(create_state(from, AlwaysAccept))
    IN  {[index |-> i, cohashes |-> honest.cohashes] : i \in 0..MaxIndex}
           \cup {[index |-> honest.index, cohashes |-> SubSeq(honest.cohashes, 1, 1)]}

\* MohoRecursiveInput
MohoRecursiveInput(moho, prev, step, step_pred, merkle_proof) ==
    [moho_predicate |-> moho,
     prev_recursive_proof |-> prev,
     incremental_step_proof |-> step,
     step_predicate |-> step_pred,
     step_predicate_merkle_proof |-> merkle_proof]

\* Encode::as_ssz_bytes and Decode::from_ssz_bytes.  A buffer is the list of
\* encoded fields; bytes that are no encoding of the expected type carry none.
as_ssz_bytes(v) == [wellformed |-> TRUE, fields |-> <<v>>]
MalformedBytes == [wellformed |-> FALSE, fields |-> <<>>]
from_ssz_bytes(bytes) ==
    IF bytes.wellformed /\ Len(bytes.fields) = 1
      THEN [tag |-> "Ok", value |-> bytes.fields[1]]
      ELSE [tag |-> "Err"]

\* ------------------------------------------------------------------- state
VARIABLES
    hostInput,      \* bytes the host hands out on read_buf
    pc,             \* position of process_recursive_moho_proof
    reads,          \* number of read_buf calls so far
    commits,        \* number of commit_buf calls so far
    input_ssz_bytes,\* local: the bytes read
    input,          \* local: the decoded MohoRecursiveInput
    moho_predicate, \* local: clone of input.moho_predicate
    result,         \* value returned by verify_and_chain_transition
    committed,      \* bytes the host received through commit_buf
    panic_payload,  \* the error value a failed unwrap() panics with
    hostResult      \* value returned by the native host's process_proof closure

driverVars == <<hostInput, pc, reads, commits, input_ssz_bytes, input, moho_predicate,
                result, committed, panic_payload, hostResult>>

\* State of the runs that exercise Transition::chain on its own.
VARIABLES
    T1, T2, T3,     \* the transitions handed to chain
    chain12,        \* chain(T1, T2)
    chain23,        \* chain(T2, T3)
    chainLeft,      \* chain(chain(T1, T2), T3)
    chainRight      \* chain(T1, chain(T2, T3))

chainVars == <<T1, T2, T3, chain12, chain23, chainLeft, chainRight>>

\* State of the runs that exercise the Merkle helpers and the outer commitment.
VARIABLES
    state_args1,    \* (inner, next_pred, exports) handed to MohoState::new
    state_args2,    \* arguments of a second MohoState::new
    leaves,         \* the leaf list handed to compute_root / generate_proof
    leaf_index,     \* 0-based index of the leaf to prove
    leaf_value,     \* the 32-byte value offered to verify_proof
    root,           \* compute_root(leaves), or the commitment of the first state
    root2,          \* the commitment of the second state
    proof,          \* generate_proof(leaves, leaf_index)
    verified,       \* SszFieldMerkle::verify_proof(root, proof, leaf_value)
    tree_verified,  \* MerkleTree::verify_proof(root, proof, leaf_value)
    driver_verified \* compute_root_no_prefix(proof, leaf_value) == root

merkleVars == <<state_args1, state_args2, leaves, leaf_index, leaf_value, root, root2,
                proof, verified, tree_verified, driver_verified>>

\* State of the runs that exercise ExportState::add_entry.
VARIABLES
    export_state,   \* the ExportState that add_entry mutates
    add_entry_call  \* the last call of add_entry: arguments, state before, outcome

exportVars == <<export_state, add_entry_call>>

\* State of the runs that build or decode a MohoState from predicate bytes.
VARIABLES
    new_args,       \* inner state, encoded predicate key and export state supplied
    borsh_bytes,    \* the Borsh stream supplied to deserialize_reader
    built           \* what MohoState::new or deserialize_reader gave back

predicateVars == <<new_args, borsh_bytes, built>>

\* State of the runs of the runtime (verify_input, compute_transition).
VARIABLES
    runtime_input,  \* the RuntimeInput handed to the runtime
    runtime_result, \* outcome of verify_input
    runtime_post    \* outcome of compute_transition

runtimeVars == <<runtime_input, runtime_result, runtime_post>>

\* State of a recursion: successive invocations of the driver, each fed the
\* output of the one before.
VARIABLES
    rec_first,      \* the step transition of the first invocation
    rec_last,       \* the step transition of the latest invocation
    rec_output,     \* the transition the latest invocation returned
    rec_count       \* number of invocations so far

recursionVars == <<rec_first, rec_last, rec_output, rec_count>>

\* State of the runs of check_export_state_structure.
VARIABLES
    estate,         \* the ExportState checked
    structure_ok    \* what check_export_state_structure returned

structureVars == <<estate, structure_ok>>

coreVars == <<driverVars, chainVars, merkleVars, exportVars>>
moreVars == <<predicateVars, runtimeVars, recursionVars, structureVars>>

libraryVars == <<chainVars, merkleVars, exportVars, moreVars>>
notChainVars == <<driverVars, merkleVars, exportVars, moreVars>>
notMerkleVars == <<driverVars, chainVars, exportVars, moreVars>>
notExportVars == <<driverVars, chainVars, merkleVars, moreVars>>
notPredicateVars == <<coreVars, runtimeVars, recursionVars, structureVars>>
notRuntimeVars == <<coreVars, predicateVars, recursionVars, structureVars>>
notRecursionVars == <<coreVars, predicateVars, runtimeVars, structureVars>>
notStructureVars == <<coreVars, predicateVars, runtimeVars, recursionVars>>

vars == <<coreVars, moreVars>>

Unset == [tag |-> "Unset"]

\* A digest-valued local that is not assigned yet.
NoDigest == <<>>

\* A call that has returned the value v.
Returns(v) == [tag |-> "Returned", value |-> v]

\* No chain run is in progress.
ChainIdle ==
    /\ T1 = Unset /\ T2 = Unset /\ T3 = Unset
    /\ chain12 = Unset /\ chain23 = Unset
    /\ chainLeft = Unset /\ chainRight = Unset

\* No Merkle run is in progress.
MerkleIdle ==
    /\ state_args1 = Unset /\ state_args2 = Unset
    /\ leaves = <<>> /\ leaf_index = 0 /\ leaf_value = NoDigest
    /\ root = NoDigest /\ root2 = NoDigest /\ proof = Unset /\ verified = Unset
    /\ tree_verified = Unset /\ driver_verified = Unset

\* No ExportState is being built.
ExportsIdle == export_state = Unset /\ add_entry_call = Unset

PredicateIdle == new_args = Unset /\ borsh_bytes = <<>> /\ built = Unset
RuntimeIdle == runtime_input = Unset /\ runtime_result = Unset /\ runtime_post = Unset
RecursionIdle ==
    /\ rec_first = Unset /\ rec_last = Unset /\ rec_output = Unset /\ rec_count = 0
StructureIdle == estate = Unset /\ structure_ok = Unset
MoreIdle == PredicateIdle /\ RuntimeIdle /\ RecursionIdle /\ StructureIdle

LibraryIdle == ChainIdle /\ MerkleIdle /\ ExportsIdle /\ MoreIdle

Init ==
    /\ LibraryIdle
    /\ \/ hostInput = MalformedBytes
       \/ \E step \in TransitionsWithProof :
          \E prev \in {None} \cup {Some(tw) : tw \in TransitionsWithProof} :
          \E moho \in PredicateKey, step_pred \in PredicateKey :
          \E merkle_proof \in InclusionProofsFor(step.transition.from_state.reference) :
             hostInput =
                as_ssz_bytes(MohoRecursiveInput(moho, prev, step, step_pred, merkle_proof))
    /\ pc = "start"
    /\ reads = 0
    /\ commits = 0
    /\ input_ssz_bytes = Unset
    /\ input = Unset
    /\ moho_predicate = Unset
    /\ result = Unset
    /\ committed = Unset
    /\ panic_payload = Unset
    /\ hostResult = Unset

\* statements.rs:30  let input_ssz_bytes = zkvm.read_buf();
ReadBuf ==
    /\ pc = "start"
    /\ input_ssz_bytes' = hostInput
    /\ reads' = reads + 1
    /\ pc' = "read"
    /\ UNCHANGED <<hostInput, commits, input, moho_predicate, result, committed,
                   panic_payload, hostResult>>
    /\ UNCHANGED libraryVars

\* statements.rs:31-32  from_ssz_bytes(..).unwrap(); moho_predicate.clone()
Decode ==
    /\ pc = "read"
    /\ LET d == from_ssz_bytes(input_ssz_bytes)
       IN  IF d.tag = "Ok"
             THEN /\ input' = d.value
                  /\ moho_predicate' = d.value.moho_predicate
                  /\ pc' = "decoded"
                  /\ UNCHANGED panic_payload
             ELSE /\ pc' = "panicked"
                  /\ panic_payload' = [type |-> "ssz::DecodeError"]
                  /\ UNCHANGED <<input, moho_predicate>>
    /\ UNCHANGED <<hostInput, reads, commits, input_ssz_bytes, result, committed, hostResult>>
    /\ UNCHANGED libraryVars

\* statements.rs:33  verify_and_chain_transition(input).unwrap()
Verify ==
    /\ pc = "decoded"
    /\ result' = verify_and_chain_transition(input)
    /\ pc' = IF result'.tag = "Ok" THEN "verified" ELSE "panicked"
    /\ panic_payload' = IF result'.tag = "Ok" THEN panic_payload
                                               ELSE [type |-> "MohoError", tag |-> result'.tag]
    /\ UNCHANGED <<hostInput, reads, commits, input_ssz_bytes, input, moho_predicate,
                   committed, hostResult>>
    /\ UNCHANGED libraryVars

\* Faulty variant of MohoRecursiveOutput: the step predicate is committed in place of
\* the Moho predicate.
MohoRecursiveOutput_with_step_predicate(pred, transition) ==
    [moho_predicate |-> input.step_predicate, transition |-> transition]

\* MohoRecursiveOutput
MohoRecursiveOutput(pred, transition) ==
    [moho_predicate |-> pred, transition |-> transition]

\* Faulty variant of CommitBuf: the commit is also reached after a panic.
CommitBuf_after_failure ==
    /\ pc \in {"verified", "panicked"}
    /\ committed' = as_ssz_bytes(MohoRecursiveOutput(moho_predicate, Unset))
    /\ commits' = commits + 1
    /\ pc' = "done"
    /\ UNCHANGED <<hostInput, reads, input_ssz_bytes, input, moho_predicate, result,
                   panic_payload, hostResult>>
    /\ UNCHANGED libraryVars

\* statements.rs:34-39  build the output and zkvm.commit_buf(&output_bytes)
CommitBuf ==
    /\ pc = "verified"
    /\ committed' = as_ssz_bytes(MohoRecursiveOutput(moho_predicate, result.value))
    /\ commits' = commits + 1
    /\ pc' = "done"
    /\ UNCHANGED <<hostInput, reads, input_ssz_bytes, input, moho_predicate, result,
                   panic_payload, hostResult>>
    /\ UNCHANGED libraryVars

\* ZkVmError::ExecutionError(Self::name())
ExecutionError == [tag |-> "Err", error |-> "ExecutionError", name |-> "Moho Recursive"]

\* Faulty variant of NativeHostReturn: the result of catch_unwind is dropped.
NativeHostReturn_dropping_unwind ==
    /\ pc \in {"done", "panicked"}
    /\ hostResult = Unset
    /\ hostResult' = [tag |-> "Ok"]
    /\ UNCHANGED <<hostInput, pc, reads, commits, input_ssz_bytes, input, moho_predicate,
                   result, committed, panic_payload>>
    /\ UNCHANGED libraryVars

\* program.rs:92-96  the process_proof closure of native_host: catch_unwind
\* around process_recursive_moho_proof, a caught panic mapped to
\* ExecutionError, otherwise Ok(()).
NativeHostReturn ==
    /\ pc \in {"done", "panicked"}
    /\ hostResult = Unset
    /\ hostResult' = IF pc = "panicked" THEN ExecutionError ELSE [tag |-> "Ok"]
    /\ UNCHANGED <<hostInput, pc, reads, commits, input_ssz_bytes, input, moho_predicate,
                   result, committed, panic_payload>>
    /\ UNCHANGED libraryVars

Next == ReadBuf \/ Decode \/ Verify \/ CommitBuf \/ NativeHostReturn

Spec == Init /\ [][Next]_vars

\* ------------------------------------------------- Transition::chain alone
\* The driver is not running.
DriverIdle ==
    /\ hostInput = Unset /\ pc = "idle" /\ reads = 0 /\ commits = 0
    /\ input_ssz_bytes = Unset /\ input = Unset /\ moho_predicate = Unset
    /\ result = Unset /\ committed = Unset
    /\ panic_payload = Unset /\ hostResult = Unset

\* Endpoints of transitions: attested states; two of them may carry the same
\* reference with different commitments.
Attestations ==
    {attestation(id, create_state(id, p)) : id \in Refs, p \in InstalledPredicates}

\* Transition::new(from, to) over all pairs of endpoints, no-ops included.
AllTransitions == {Transition(a, b) : a \in Attestations, b \in Attestations}

InitChain ==
    /\ T1 \in AllTransitions
    /\ T2 \in AllTransitions
    /\ T3 \in AllTransitions
    /\ chain12 = Unset /\ chain23 = Unset
    /\ chainLeft = Unset /\ chainRight = Unset
    /\ DriverIdle /\ MerkleIdle /\ ExportsIdle /\ MoreIdle

\* T1.chain(T2)
Chain12 ==
    /\ chain12 = Unset
    /\ chain12' = chain(T1, T2)
    /\ UNCHANGED <<T1, T2, T3, chain23, chainLeft, chainRight>>
    /\ UNCHANGED notChainVars

\* T2.chain(T3)
Chain23 ==
    /\ chain23 = Unset
    /\ chain23' = chain(T2, T3)
    /\ UNCHANGED <<T1, T2, T3, chain12, chainLeft, chainRight>>
    /\ UNCHANGED notChainVars

\* T1.chain(T2)?.chain(T3): an Err of the inner call is the result.
ChainLeft ==
    /\ chain12 # Unset
    /\ chainLeft = Unset
    /\ chainLeft' = IF chain12.tag = "Ok" THEN chain(chain12.value, T3) ELSE chain12
    /\ UNCHANGED <<T1, T2, T3, chain12, chain23, chainRight>>
    /\ UNCHANGED notChainVars

\* T1.chain(T2.chain(T3)?): an Err of the inner call is the result.
ChainRight ==
    /\ chain23 # Unset
    /\ chainRight = Unset
    /\ chainRight' = IF chain23.tag = "Ok" THEN chain(T1, chain23.value) ELSE chain23
    /\ UNCHANGED <<T1, T2, T3, chain12, chain23, chainLeft>>
    /\ UNCHANGED notChainVars

NextChain == Chain12 \/ Chain23 \/ ChainLeft \/ ChainRight

SpecChain == InitChain /\ [][NextChain]_vars

\* ------------------------------- Merkle helpers and the outer commitment
\* 32-byte values used as leaves: the zero chunk, opaque digests and the hash
\* of an inner node.
LeafValues ==
    {ZeroChunk, hash_internal(ZeroChunk, ZeroChunk)}
        \cup {InnerStateCommitment(id) : id \in Refs}

LeafLists == UNION {[1..n -> LeafValues] : n \in 1..MaxLeaves}

\* Export states an outer state may wrap.
ExportSamples ==
    {ExportState(<<>>),
     ExportState(<<ExportContainer(1, <<>>, <<>>)>>),
     ExportState(<<ExportContainer(1, <<>>, <<ExportEntry(1, <<255>>)>>)>>)}

\* Argument triples of MohoState::new.
StateArgs ==
    [inner_state : {InnerStateCommitment(id) : id \in Refs},
     next_predicate : InstalledPredicates,
     export_state : ExportSamples]

new_state(args) == MohoState(args.inner_state, args.next_predicate, args.export_state)

\* Values offered as the leaf of a field proof of the first state: the field
\* roots of both states, the zero chunk, an inner node and the root itself.
OfferedValues(a1, a2) ==
    LET l1 == ssz_field_roots(new_state(a1))
        l2 == ssz_field_roots(new_state(a2))
    IN  {l1[i] : i \in 1..3} \cup {l2[i] : i \in 1..3}
            \cup {ZeroChunk, hash_internal(l1[1], l1[2]),
                  compute_commitment(new_state(a1))}

InitMerkle ==
    /\ \/ /\ state_args1 = Unset
          /\ state_args2 = Unset
          /\ leaves \in LeafLists
          /\ leaf_index \in 0..(Len(leaves) - 1)
          /\ leaf_value \in LeafValues
       \/ /\ state_args1 \in StateArgs
          /\ state_args2 \in StateArgs
          /\ leaves = ssz_field_roots(new_state(state_args1))
          /\ leaf_index \in 0..2
          /\ leaf_value \in OfferedValues(state_args1, state_args2)
    /\ root = NoDigest /\ root2 = NoDigest /\ proof = Unset /\ verified = Unset
    /\ tree_verified = Unset /\ driver_verified = Unset
    /\ DriverIdle /\ ChainIdle /\ ExportsIdle /\ MoreIdle

\* MerkleTree::compute_root(&leaves)
ComputeRoot ==
    /\ state_args1 = Unset
    /\ leaves # <<>>
    /\ root = NoDigest
    /\ root' = compute_root(leaves)
    /\ UNCHANGED <<state_args1, state_args2, leaves, leaf_index, leaf_value, root2,
                   proof, verified,
                   tree_verified, driver_verified>>
    /\ UNCHANGED notMerkleVars

\* MohoState::new(..).compute_commitment() for both argument triples
ComputeCommitment ==
    /\ state_args1 # Unset
    /\ root = NoDigest
    /\ root' = compute_commitment(new_state(state_args1))
    /\ root2' = compute_commitment(new_state(state_args2))
    /\ UNCHANGED <<state_args1, state_args2, leaves, leaf_index, leaf_value, proof,
                   verified,
                   tree_verified, driver_verified>>
    /\ UNCHANGED notMerkleVars

\* SszFieldMerkle::generate_proof(&leaves, leaf_index)
GenerateProof ==
    /\ leaves # <<>>
    /\ proof = Unset
    /\ proof' = generate_proof(leaves, leaf_index)
    /\ UNCHANGED <<state_args1, state_args2, leaves, leaf_index, leaf_value, root,
                   root2, verified,
                   tree_verified, driver_verified>>
    /\ UNCHANGED notMerkleVars

\* SszFieldMerkle::verify_proof(&root, &proof, &leaf_value)
VerifyProof ==
    /\ root # NoDigest
    /\ proof # Unset
    /\ verified = Unset
    /\ verified' = Returns(verify_proof(root, proof, leaf_value))
    /\ UNCHANGED <<state_args1, state_args2, leaves, leaf_index, leaf_value, root,
                   root2, proof,
                   tree_verified, driver_verified>>
    /\ UNCHANGED notMerkleVars

\* MerkleTree::verify_proof(&root, &proof, &leaf_value)
VerifyProofWithTree ==
    /\ root # NoDigest
    /\ proof # Unset
    /\ tree_verified = Unset
    /\ tree_verified' = Returns(MerkleTree_verify_proof(root, proof, leaf_value))
    /\ UNCHANGED <<state_args1, state_args2, leaves, leaf_index, leaf_value, root,
                   root2, proof, verified, driver_verified>>
    /\ UNCHANGED notMerkleVars

\* statements.rs:80-85  compute_root_no_prefix(proof, leaf) == expected_root
VerifyProofInDriver ==
    /\ root # NoDigest
    /\ proof # Unset
    /\ driver_verified = Unset
    /\ driver_verified' = Returns(compute_root_no_prefix(proof, leaf_value) = root)
    /\ UNCHANGED <<state_args1, state_args2, leaves, leaf_index, leaf_value, root,
                   root2, proof, verified, tree_verified>>
    /\ UNCHANGED notMerkleVars

NextMerkle == ComputeRoot \/ ComputeCommitment \/ GenerateProof \/ VerifyProof

SpecMerkle == InitMerkle /\ [][NextMerkle]_vars

\* ------------------------------------------------ the three Merkle verifiers
\* Longest sibling list offered to the verifiers.
MaxBranch == 3

\* Two distinct 32-byte values to draw siblings from.
SiblingValues == {ZeroChunk, hash_internal(ZeroChunk, ZeroChunk)}

SiblingLists == UNION {[1..n -> SiblingValues] : n \in 0..MaxBranch}

\* Any leaf, sibling list and index; the root is what the siblings fold to
\* under some index, or a value they do not fold to.
InitVerifiers ==
    /\ \E value \in LeafValues, siblings \in SiblingLists, index \in 0..MaxIndex,
          folded \in 0..MaxIndex, mismatch \in BOOLEAN :
          /\ leaf_value = value
          /\ proof = [index |-> index, cohashes |-> siblings]
          /\ root = IF mismatch THEN ZeroChunk
                    ELSE compute_root_loop(value, folded, siblings)
    /\ state_args1 = Unset /\ state_args2 = Unset
    /\ leaves = <<>> /\ leaf_index = 0 /\ root2 = NoDigest
    /\ verified = Unset /\ tree_verified = Unset /\ driver_verified = Unset
    /\ DriverIdle /\ ChainIdle /\ ExportsIdle /\ MoreIdle

NextVerifiers == VerifyProof \/ VerifyProofWithTree \/ VerifyProofInDriver

SpecVerifiers == InitVerifiers /\ [][NextVerifiers]_vars

\* ------------------------------------------------ ExportState::add_entry
ContainerIds == {1, 2}
Entries == {ExportEntry(1, <<>>), ExportEntry(2, <<255>>)}

\* ExportState::new(containers) with up to two empty containers; nothing in
\* the constructor keeps two containers from sharing an id.
InitialExportStates ==
    {ExportState(<<>>)}
        \cup {ExportState(<<ExportContainer(a, <<a>>, <<>>)>>) : a \in ContainerIds}
        \cup {ExportState(<<ExportContainer(a, <<a>>, <<>>), ExportContainer(b, <<b>>, <<>>)>>) :
                 a \in ContainerIds, b \in ContainerIds}

InitExports ==
    /\ export_state \in InitialExportStates
    /\ add_entry_call = Unset
    /\ DriverIdle /\ ChainIdle /\ MerkleIdle /\ MoreIdle

\* state.add_entry(container_id, entry); a panic ends the run.
AddEntry ==
    /\ add_entry_call.tag # "panicked"
    /\ \E container_id \in ContainerIds, entry \in Entries :
          LET r == add_entry(export_state, container_id, entry)
          IN  /\ export_state' = r.state
              /\ add_entry_call' =
                    [tag |-> r.tag, value |-> r.value, container_id |-> container_id,
                     entry |-> entry, before |-> export_state]
    /\ UNCHANGED notExportVars

NextExports == AddEntry

SpecExports == InitExports /\ [][NextExports]_vars

\* ------------------------------------- MohoState::new and Borsh decoding
\* Here the predicate key is spelled out in its encoded bytes (type id, then
\* the condition), as MohoState stores it.

MAX_PREDICATE_SIZE == 256
MAX_EXPORT_CONTAINERS == 256
MAX_EXPORT_ENTRIES == 4096
MAX_PAYLOAD_SIZE == 4096

\* How many bytes past MAX_PREDICATE_SIZE the supplied keys go.
MaxExcess == 2

\* ssz_types' From<Vec<T>> for VariableList<T, N> is not part of the
\* repository: given more than N items it keeps them all (as the runtime's
\* tests of over-long lists presuppose), keeps the first N, or panics.
VariableListBuilds == {"keeping", "truncating", "panicking"}

\* VariableList::<T, N>::from(vec)
VariableList_from(vec, N, build) ==
    IF Len(vec) <= N \/ build = "keeping" THEN [tag |-> "list", value |-> vec]
    ELSE IF build = "truncating" THEN [tag |-> "list", value |-> SubSeq(vec, 1, N)]
    ELSE [tag |-> "panicked"]

\* MohoState::new(inner_state, next_predicate, export_state), the predicate
\* given by next_predicate.as_buf_ref().to_bytes().
MohoState_new(inner, next_predicate_bytes, exports, build) ==
    LET next_predicate == VariableList_from(next_predicate_bytes, MAX_PREDICATE_SIZE, build)
    IN  IF next_predicate.tag = "panicked" THEN [tag |-> "panicked"]
        ELSE [tag |-> "returned",
              value |-> [inner_state |-> inner, next_predicate |-> next_predicate.value,
                         export_state |-> exports]]

\* Borsh encoding of a Vec<u8>: its length, then its items.  A u16/u32 is one
\* item of the stream.
borsh_vec(v) == <<Len(v)>> \o v

RECURSIVE borsh_entries(_)
borsh_entries(entries) ==
    IF entries = <<>> THEN <<>>
    ELSE <<Head(entries).entry_id>> \o borsh_vec(Head(entries).payload)
            \o borsh_entries(Tail(entries))

RECURSIVE borsh_containers(_)
borsh_containers(containers) ==
    IF containers = <<>> THEN <<>>
    ELSE LET c == Head(containers)
         IN  <<c.container_id>> \o borsh_vec(c.common_payload)
                \o <<Len(c.entries)>> \o borsh_entries(c.entries)
                \o borsh_containers(Tail(containers))

\* <MohoState as BorshSerialize>::serialize, on the three fields.
borsh_serialize(inner, next_predicate_bytes, exports) ==
    inner \o borsh_vec(next_predicate_bytes)
        \o <<Len(exports.containers)>> \o borsh_containers(exports.containers)

\* Results of reading from the stream: the value and the rest of the stream,
\* an io error, or a panic.
Read(v, rest) == [tag |-> "ok", value |-> v, rest |-> rest]
IoError == [tag |-> "err"]
Panicked == [tag |-> "panicked"]

\* u16/u32 deserialize_reader
read_int(s) == IF s = <<>> THEN IoError ELSE Read(Head(s), Tail(s))

\* Vec<u8> deserialize_reader
read_vec(s) ==
    IF s = <<>> \/ Len(s) < 1 + Head(s) THEN IoError
    ELSE Read(SubSeq(s, 2, 1 + Head(s)), SubSeq(s, 2 + Head(s), Len(s)))

\* The inner loop of deserialize_reader: n entries.
RECURSIVE read_entries(_, _, _, _)
read_entries(s, n, acc, build) ==
    IF n = 0 THEN Read(acc, s)
    ELSE LET entry_id == read_int(s)
         IN  IF entry_id.tag # "ok" THEN entry_id
             ELSE LET payload_vec == read_vec(entry_id.rest)
                  IN  IF payload_vec.tag # "ok" THEN payload_vec
                      ELSE LET payload == VariableList_from(payload_vec.value,
                                                            MAX_PAYLOAD_SIZE, build)
                           IN  IF payload.tag = "panicked" THEN Panicked
                               ELSE read_entries(payload_vec.rest, n - 1,
                                       Append(acc, ExportEntry(entry_id.value, payload.value)),
                                       build)

\* The outer loop of deserialize_reader: n containers.
RECURSIVE read_containers(_, _, _, _)
read_containers(s, n, acc, build) ==
    IF n = 0 THEN Read(acc, s)
    ELSE LET container_id == read_int(s)
         IN  IF container_id.tag # "ok" THEN container_id
             ELSE LET common_payload_vec == read_vec(container_id.rest)
                  IN  IF common_payload_vec.tag # "ok" THEN common_payload_vec
                      ELSE LET common_payload == VariableList_from(common_payload_vec.value,
                                                                   MAX_PAYLOAD_SIZE, build)
                               entries_len == read_int(common_payload_vec.rest)
                           IN  IF common_payload.tag = "panicked" THEN Panicked
                               ELSE IF entries_len.tag # "ok" THEN entries_len
                               ELSE LET entries == read_entries(entries_len.rest,
                                                        entries_len.value, <<>>, build)
                                    IN  IF entries.tag # "ok" THEN entries
                                        ELSE LET list == VariableList_from(entries.value,
                                                            MAX_EXPORT_ENTRIES, build)
                                             IN  IF list.tag = "panicked" THEN Panicked
                                                 ELSE read_containers(entries.rest, n - 1,
                                                        Append(acc,
                                                          ExportContainer(container_id.value,
                                                             common_payload.value, list.value)),
                                                        build)

\* <MohoState as BorshDeserialize>::deserialize_reader
deserialize_reader(s, build) ==
    LET width == Len(InnerStateCommitment(0))
    IN  IF Len(s) < width THEN IoError
        ELSE LET inner_state == SubSeq(s, 1, width)
                 pred_vec == read_vec(SubSeq(s, width + 1, Len(s)))
             IN  IF pred_vec.tag # "ok" THEN IoError
                 ELSE LET next_predicate == VariableList_from(pred_vec.value,
                                                              MAX_PREDICATE_SIZE, build)
                          cont_len == read_int(pred_vec.rest)
                      IN  IF next_predicate.tag = "panicked" THEN Panicked
                          ELSE IF cont_len.tag # "ok" THEN IoError
                          ELSE LET containers == read_containers(cont_len.rest,
                                                    cont_len.value, <<>>, build)
                               IN  IF containers.tag # "ok" THEN containers
                                   ELSE LET list == VariableList_from(containers.value,
                                                        MAX_EXPORT_CONTAINERS, build)
                                        IN  IF list.tag = "panicked" THEN Panicked
                                            ELSE [tag |-> "ok",
                                                  value |->
                                                    [inner_state |-> inner_state,
                                                     next_predicate |-> next_predicate.value,
                                                     export_state |-> ExportState(list.value)]]

\* Encoded predicate keys of n bytes: a type id, then the condition bytes.
PredicateBytes(n, type_id) == [i \in 1..n |-> IF i = 1 THEN type_id ELSE i % 256]

\* The arguments: an inner commitment, a key of 1 to MAX_PREDICATE_SIZE +
\* MaxExcess bytes, an export state; the stream is the encoding of the three,
\* whole or cut short by some bytes.
InitPredicate ==
    /\ \E id \in Refs, n \in 1..(MAX_PREDICATE_SIZE + MaxExcess), type_id \in {0, 1},
          exports \in ExportSamples, cut \in 0..MaxExcess :
          LET bytes == borsh_serialize(InnerStateCommitment(id),
                                       PredicateBytes(n, type_id), exports)
          IN  /\ new_args = [inner_state |-> InnerStateCommitment(id),
                             predicate_bytes |-> PredicateBytes(n, type_id),
                             export_state |-> exports]
              /\ borsh_bytes = SubSeq(bytes, 1, Len(bytes) - cut)
    /\ built = Unset
    /\ DriverIdle /\ ChainIdle /\ MerkleIdle /\ ExportsIdle
    /\ RuntimeIdle /\ RecursionIdle /\ StructureIdle

\* MohoState::new on the arguments.
NewState ==
    /\ built = Unset
    /\ \E build \in VariableListBuilds :
          built' = MohoState_new(new_args.inner_state, new_args.predicate_bytes,
                                 new_args.export_state, build)
    /\ UNCHANGED <<new_args, borsh_bytes>>
    /\ UNCHANGED notPredicateVars

\* MohoState::deserialize_reader on the stream.
Deserialize ==
    /\ built = Unset
    /\ \E build \in VariableListBuilds : built' = deserialize_reader(borsh_bytes, build)
    /\ UNCHANGED <<new_args, borsh_bytes>>
    /\ UNCHANGED notPredicateVars

NextPredicate == NewState \/ Deserialize

SpecPredicate == InitPredicate /\ [][NextPredicate]_vars

\* ------------------------------------------------------------ the runtime
\* panic!(message) / a failed assert_eq! / expect
PanicWith(message) == [tag |-> "Panicked", message |-> message]

\* windows(2).any(|w| w[0].id >= w[1].id) over a list of ids
any_window_not_increasing(ids) ==
    \E i \in 1..(Len(ids) - 1) : ids[i] >= ids[i + 1]

\* check_export_cont_structure(cont)
check_export_cont_structure(cont) ==
    IF Len(cont.entries) > MAX_EXPORT_ENTRIES THEN FALSE
    ELSE IF Len(cont.common_payload) > MAX_PAYLOAD_SIZE THEN FALSE
    ELSE IF any_window_not_increasing(
                [i \in 1..Len(cont.entries) |-> cont.entries[i].entry_id]) THEN FALSE
    ELSE IF \E i \in 1..Len(cont.entries) :
                Len(cont.entries[i].payload) > MAX_PAYLOAD_SIZE THEN FALSE
    ELSE TRUE

\* Faulty variant of check_export_state_structure: the number of containers
\* is compared with >=.
check_export_state_structure_excluding_limit(state) ==
    IF Len(state.containers) >= MAX_EXPORT_CONTAINERS THEN FALSE
    ELSE IF any_window_not_increasing(
                [i \in 1..Len(state.containers) |-> state.containers[i].container_id])
         THEN FALSE
    ELSE \A i \in 1..Len(state.containers) :
            check_export_cont_structure(state.containers[i])

\* check_export_state_structure(state)
check_export_state_structure(state) ==
    IF Len(state.containers) > MAX_EXPORT_CONTAINERS THEN FALSE
    ELSE IF any_window_not_increasing(
                [i \in 1..Len(state.containers) |-> state.containers[i].container_id])
         THEN FALSE
    ELSE \A i \in 1..Len(state.containers) :
            check_export_cont_structure(state.containers[i])

\* The inner program P.  Its State is an identifier; its StepInput names its
\* own reference, its parent's, and what process_transition makes of it: the
\* post state and the step output.
StepOutput(next_predicate, next_vk, exports) ==
    [next_predicate |-> next_predicate, next_vk |-> next_vk, export_state |-> exports]
StepInput(reference, parent, post_state, output) ==
    [reference |-> reference, parent |-> parent, post_state |-> post_state,
     output |-> output]

\* P::compute_input_reference, P::extract_prev_reference
compute_input_reference(inp) == inp.reference
extract_prev_reference(inp) == inp.parent
\* P::compute_state_commitment
compute_state_commitment(state) == InnerStateCommitment(state)
\* P::process_transition, as the runtime destructures it.
process_transition(pre_state, inp) == <<inp.post_state, inp.output>>
\* P::extract_next_predicate
extract_next_predicate(output) == output.next_predicate
\* P::extract_next_vk, P::extract_export_state, as the runtime calls them.
extract_next_vk(output) == output.next_vk
extract_export_state(output) == output.export_state

\* Borsh encodings of P's State and StepInput, one item per field.
borsh_state(state) == <<state>>
borsh_input(inp) == <<inp.reference, inp.parent, inp.post_state, inp.output>>

\* deserialize_borsh::<P::State>(buf)
deserialize_borsh_state(buf) ==
    IF Len(buf) # 1 THEN IoError ELSE [tag |-> "ok", value |-> buf[1]]

\* deserialize_borsh::<P::StepInput>(buf)
deserialize_borsh_input(buf) ==
    IF Len(buf) # 4 THEN IoError
    ELSE [tag |-> "ok", value |-> StepInput(buf[1], buf[2], buf[3], buf[4])]

\* RuntimeInput::new
RuntimeInput(pre_state_ref, moho_pre_state, inner_pre_state, input_payload, post_state_commitment) ==
    [pre_state_ref |-> pre_state_ref, moho_pre_state |-> moho_pre_state,
     inner_pre_state |-> inner_pre_state, input_payload |-> input_payload,
     post_state_commitment |-> post_state_commitment]

\* MohoAttestation::new(genesis, proven)
MohoAttestation(genesis, proven) == [genesis |-> genesis, proven |-> proven]

\* compute_moho_state_commitment(state): unimplemented!()
compute_moho_state_commitment(state) == PanicWith("not implemented")

\* compute_wrapping_moho_state::<P>(state, step_output)
compute_wrapping_moho_state(state, step_output) ==
    LET inner_root == compute_state_commitment(state)
        next_vk == extract_next_vk(step_output)
        exports == extract_export_state(step_output)
    IN  IF ~check_export_state_structure(exports)
        THEN PanicWith("runtime: invalid export state structure")
        ELSE Returns(MohoState(inner_root, next_vk, exports))

\* compute_transition::<P>(pre_state_ref, pre_moho_state, pre_inner_state, input)
compute_transition(pre_state_ref, pre_moho_state, pre_inner_state, inp) ==
    IF compute_state_commitment(pre_inner_state) # pre_moho_state.inner_state
    THEN PanicWith("runtime: input moho state mismatch")
    ELSE IF extract_prev_reference(inp) # pre_state_ref
    THEN PanicWith("runtime: input parent ref mismatch")
    ELSE LET out == process_transition(pre_inner_state, inp)
         IN  compute_wrapping_moho_state(out[1], out[2])

\* compute_transition_attestation::<P>(pre_state_ref, pre_moho_state,
\*                                     pre_inner_state, input)
compute_transition_attestation(pre_state_ref, pre_moho_state, pre_inner_state, inp) ==
    LET input_ref == compute_input_reference(inp)
    IN  IF extract_prev_reference(inp) # pre_state_ref
        THEN PanicWith("runtime: input parent mismatch")
        ELSE LET post_state == compute_transition(pre_state_ref, pre_moho_state,
                                                  pre_inner_state, inp)
             IN  IF post_state.tag = "Panicked" THEN post_state
                 ELSE LET post_state_commitment ==
                              compute_moho_state_commitment(post_state.value)
                      IN  IF post_state_commitment.tag = "Panicked"
                          THEN post_state_commitment
                          ELSE Returns(StateRefAttestation(input_ref,
                                                           post_state_commitment.value))

\* verify_input::<P>(input)
verify_input(inp) ==
    LET inner_pre_state == deserialize_borsh_state(inp.inner_pre_state)
        inner_input == deserialize_borsh_input(inp.input_payload)
    IN  IF inner_pre_state.tag # "ok" THEN PanicWith("runtime: deserialize pre state")
        ELSE IF inner_input.tag # "ok" THEN PanicWith("runtime: deserialize inner input")
        ELSE LET post_ref_att ==
                     compute_transition_attestation(inp.pre_state_ref, inp.moho_pre_state,
                                                    inner_pre_state.value, inner_input.value)
             IN  IF post_ref_att.tag = "Panicked" THEN post_ref_att
                 ELSE IF inp.post_state_commitment # post_ref_att.value.commitment
                 THEN PanicWith("runtime: post state commitment match")
                 ELSE LET pre_commitment ==
                              compute_moho_state_commitment(inp.moho_pre_state)
                      IN  IF pre_commitment.tag = "Panicked" THEN pre_commitment
                          ELSE Returns(MohoAttestation(
                                  StateRefAttestation(inp.pre_state_ref,
                                                      pre_commitment.value),
                                  post_ref_att.value))

\* An export state with a repeated container id.
RepeatedIdExports == ExportState(<<ExportContainer(1, <<>>, <<>>), ExportContainer(1, <<>>, <<>>)>>)

\* Step outputs of P: no predicate update or an update to some key, a key for
\* the wrapped state, and the exports.
StepOutputs ==
    {StepOutput(np, vk, e) :
        np \in {None} \cup {Some(k) : k \in InstalledPredicates},
        vk \in InstalledPredicates,
        e \in {ExportState(<<>>), RepeatedIdExports}}

StepInputs ==
    {StepInput(r, p, s, out) : r \in Refs, p \in Refs, s \in Refs, out \in StepOutputs}

\* The runtime inputs: a pre-state reference, an outer pre-state, the encoded
\* inner pre-state and step input (whole or cut short), and the claimed
\* commitment of the post state: that of the state the step leads to, or that
\* of the pre-state.
InitRuntime ==
    /\ \E pre_state_ref \in Refs, pre_inner \in Refs, pre_moho \in Refs,
          next_predicate \in InstalledPredicates, inp \in StepInputs,
          cut_state \in BOOLEAN, cut_input \in BOOLEAN, claim_post \in BOOLEAN :
          LET moho_pre_state == create_state(pre_moho, next_predicate)
              post == MohoState(compute_state_commitment(inp.post_state),
                                extract_next_vk(inp.output),
                                extract_export_state(inp.output))
              state_bytes == borsh_state(pre_inner)
              input_bytes == borsh_input(inp)
          IN  runtime_input =
                RuntimeInput(pre_state_ref, moho_pre_state,
                    IF cut_state THEN SubSeq(state_bytes, 1, Len(state_bytes) - 1)
                                 ELSE state_bytes,
                    IF cut_input THEN SubSeq(input_bytes, 1, Len(input_bytes) - 1)
                                 ELSE input_bytes,
                    IF claim_post THEN compute_commitment(post)
                                  ELSE compute_commitment(moho_pre_state))
    /\ runtime_result = Unset /\ runtime_post = Unset
    /\ DriverIdle /\ ChainIdle /\ MerkleIdle /\ ExportsIdle
    /\ PredicateIdle /\ RecursionIdle /\ StructureIdle

\* verify_input on the input.
VerifyInput ==
    /\ runtime_result = Unset
    /\ runtime_result' = verify_input(runtime_input)
    /\ UNCHANGED <<runtime_input, runtime_post>>
    /\ UNCHANGED notRuntimeVars

\* compute_transition on the decoded input.
ComputeTransition ==
    /\ runtime_post = Unset
    /\ deserialize_borsh_state(runtime_input.inner_pre_state).tag = "ok"
    /\ deserialize_borsh_input(runtime_input.input_payload).tag = "ok"
    /\ runtime_post' =
          compute_transition(runtime_input.pre_state_ref, runtime_input.moho_pre_state,
                             deserialize_borsh_state(runtime_input.inner_pre_state).value,
                             deserialize_borsh_input(runtime_input.input_payload).value)
    /\ UNCHANGED <<runtime_input, runtime_result>>
    /\ UNCHANGED notRuntimeVars

NextRuntime == VerifyInput \/ ComputeTransition

SpecRuntime == InitRuntime /\ [][NextRuntime]_vars

\* ------------------------------------------------------------ the recursion
\* Successive invocations of the driver: the first without a previous proof,
\* each later one with the transition the one before returned, under some
\* proof of it.  As in tests::create_input, the inclusion proof is the branch
\* generated for the state the step starts from.
MaxInvocations == 3

InitRecursion ==
    /\ rec_first = Unset /\ rec_last = Unset /\ rec_output = Unset /\ rec_count = 0
    /\ DriverIdle /\ ChainIdle /\ MerkleIdle /\ ExportsIdle
    /\ PredicateIdle /\ RuntimeIdle /\ StructureIdle

\* One invocation that succeeds.
Invoke ==
    /\ rec_count < MaxInvocations
    /\ \E step \in TransitionsWithProof, moho \in PredicateKey, step_pred \in PredicateKey :
       \E prev \in IF rec_count = 0 THEN {None}
                   ELSE {Some(MohoTransitionWithProof(rec_output, w)) :
                            w \in ProofsFor(rec_output)} :
          LET merkle_proof ==
                  create_predicate_inclusion_proof(
                      create_state(step.transition.from_state.reference, step_pred))
              inp == MohoRecursiveInput(moho, prev, step, step_pred, merkle_proof)
              r == verify_and_chain_transition(inp)
          IN  /\ r.tag = "Ok"
              /\ rec_output' = r.value
              /\ rec_last' = inp
              /\ rec_first' = IF rec_count = 0 THEN step.transition ELSE rec_first
    /\ rec_count' = rec_count + 1
    /\ UNCHANGED notRecursionVars

NextRecursion == Invoke

SpecRecursion == InitRecursion /\ [][NextRecursion]_vars

\* ------------------------------------------- check_export_state_structure
\* vec![0u8; n]
ZeroBytes(n) == [i \in 1..n |-> 0]

\* Lists of at most n ids out of 1..MaxEntries.
IdLists(n) == UNION {[1..k -> 1..MaxEntries] : k \in 0..n}

\* A container with the ids and sizes given: common payload of `common`
\* bytes, one entry per id, the first entry's payload of `first` bytes.
ContainerOf(container_id, common, entry_ids, first) ==
    ExportContainer(container_id, ZeroBytes(common),
        [i \in 1..Len(entry_ids) |->
            ExportEntry(entry_ids[i], IF i = 1 THEN ZeroBytes(first) ELSE <<>>)])

\* Sizes around the payload limit.
PayloadSizes == {0, 1} \cup ((MAX_PAYLOAD_SIZE - 1)..(MAX_PAYLOAD_SIZE + 1))

\* The export states checked:
\*   - n containers with ids 1..n and an entry each, n up to past the limit,
\*     in order or with one id repeated;
\*   - one container with n entries with ids 1..n, n around the limit;
\*   - one or two containers with any short list of ids, one of them with
\*     any short list of entry ids;
\*   - one or two containers in order, one of them with no, one or two
\*     entries and common and entry payloads of sizes around the limit.
InitStructure ==
    /\ \/ \E n \in 0..(MAX_EXPORT_CONTAINERS + MaxExcess), repeated \in BOOLEAN :
             estate = ExportState(
                        [i \in 1..n |->
                            ContainerOf(IF repeated /\ i = n /\ n > 1 THEN n - 1 ELSE i,
                                        0, <<1>>, 3)])
       \/ \E n \in (MAX_EXPORT_ENTRIES - 1)..(MAX_EXPORT_ENTRIES + MaxExcess) :
             estate = ExportState(<<ContainerOf(1, 0, [i \in 1..n |-> i], 0)>>)
       \/ \E ids \in IdLists(2) \ {<<>>}, at \in 1..2, entry_ids \in IdLists(MaxEntries) :
             /\ at <= Len(ids)
             /\ estate = ExportState(
                           [i \in 1..Len(ids) |->
                              IF i = at THEN ContainerOf(ids[i], 0, entry_ids, 0)
                                        ELSE ContainerOf(ids[i], 0, <<>>, 0)])
       \/ \E n \in 1..2, at \in 1..2, entry_ids \in {<<>>, <<1>>, <<1, 2>>},
             common \in PayloadSizes, first \in PayloadSizes :
             /\ at <= n
             /\ estate = ExportState(
                           [i \in 1..n |->
                              IF i = at THEN ContainerOf(i, common, entry_ids, first)
                                        ELSE ContainerOf(i, 0, <<>>, 0)])
    /\ structure_ok = Unset
    /\ DriverIdle /\ ChainIdle /\ MerkleIdle /\ ExportsIdle
    /\ PredicateIdle /\ RuntimeIdle /\ RecursionIdle

\* check_export_state_structure on the state.
CheckStructure ==
    /\ structure_ok = Unset
    /\ structure_ok' = Returns(check_export_state_structure(estate))
    /\ UNCHANGED estate
    /\ UNCHANGED notStructureVars

NextStructure == CheckStructure

SpecStructure == InitStructure /\ [][NextStructure]_vars

\* ================================================================== claims
\* Notions the claims are stated in.

\* The run has returned from verify_and_chain_transition.
Returned == result # Unset

StepProof == input.incremental_step_proof
PrevProof == input.prev_recursive_proof.value

\* The predicate accepts the pair (canonical encoding of the transition alone,
\* the attached witness).
Accepts(pred, tw) ==
    verify_claim_witness(pred, ssz_encode_transition(tw.transition), tw.proof)

\* The root recomputed bottom-up from hash(step_predicate) along the proof
\* equals the commitment the step starts from.
InclusionPasses ==
    compute_root_no_prefix(input.step_predicate_merkle_proof,
                           predicate_hash(input.step_predicate))
        = StepProof.transition.from_state.commitment

\* C1: with a previous proof, when the inclusion check passes, step_predicate
\* accepts the step, moho_predicate accepts the previous proof and the two
\* transitions adjoin, the call returns Ok(t) with t.from = prev.from and
\* t.to = step.to.
C1_ChainedEndpoints ==
    (/\ Returned
     /\ input.prev_recursive_proof.some
     /\ InclusionPasses
     /\ Accepts(input.step_predicate, StepProof)
     /\ Accepts(input.moho_predicate, PrevProof)
     /\ PrevProof.transition.to_state = StepProof.transition.from_state)
    => /\ result.tag = "Ok"
       /\ result.value.from_state = PrevProof.transition.from_state
       /\ result.value.to_state = StepProof.transition.to_state

\* C2: without a previous proof, when the inclusion check passes and
\* step_predicate accepts the step, the call returns Ok(step.transition),
\* no-op transitions included.
C2_BaseCaseReturnsStep ==
    (/\ Returned
     /\ ~input.prev_recursive_proof.some
     /\ InclusionPasses
     /\ Accepts(input.step_predicate, StepProof))
    => /\ result.tag = "Ok"
       /\ result.value = StepProof.transition

\* C3: whenever the recomputed root differs from step.transition.from.commitment
\* the call returns InvalidMerkleProof, whatever the other fields are.
C3_RootMismatchIsInvalidMerkleProof ==
    (Returned /\ ~InclusionPasses) => result.tag = "InvalidMerkleProof"

C3_Witness ==
    /\ Returned
    /\ ~InclusionPasses
    /\ input.prev_recursive_proof.some
    /\ Accepts(input.step_predicate, StepProof)
    /\ Accepts(input.moho_predicate, PrevProof)
    /\ result.tag = "InvalidMerkleProof"

\* C4: whenever the inclusion check passes and step_predicate rejects the
\* step's claim/witness pair, the call returns InvalidIncrementalProof, with
\* or without a previous proof.
C4_RejectedStepIsInvalidIncrementalProof ==
    (Returned /\ InclusionPasses /\ ~Accepts(input.step_predicate, StepProof))
    => result.tag = "InvalidIncrementalProof"

C4_Witness ==
    /\ Returned
    /\ InclusionPasses
    /\ ~Accepts(input.step_predicate, StepProof)
    /\ input.step_predicate.kind = "Bip340Schnorr"
    /\ input.prev_recursive_proof.some
    /\ Accepts(input.moho_predicate, PrevProof)
    /\ result.tag = "InvalidIncrementalProof"

\* C5: whenever the inclusion check and the step-proof check pass, a previous
\* proof is present and moho_predicate rejects its claim/witness pair, the call
\* returns InvalidRecursiveProof.
C5_RejectedPrevIsInvalidRecursiveProof ==
    (/\ Returned
     /\ InclusionPasses
     /\ Accepts(input.step_predicate, StepProof)
     /\ input.prev_recursive_proof.some
     /\ ~Accepts(input.moho_predicate, PrevProof))
    => result.tag = "InvalidRecursiveProof"

\* C6: whenever all three verification checks pass, a previous proof is present
\* and prev.transition.to differs from step.transition.from, the call returns
\* InvalidMohoChain carrying first_end_state = prev.to and
\* second_start_state = step.from.
C6_GapIsInvalidMohoChain ==
    (/\ Returned
     /\ InclusionPasses
     /\ Accepts(input.step_predicate, StepProof)
     /\ input.prev_recursive_proof.some
     /\ Accepts(input.moho_predicate, PrevProof)
     /\ PrevProof.transition.to_state # StepProof.transition.from_state)
    => /\ result.tag = "InvalidMohoChain"
       /\ result.first_end_state = PrevProof.transition.to_state
       /\ result.second_start_state = StepProof.transition.from_state

\* C7: MohoTransitionWithProof::verify(tw, pred) succeeds exactly when pred
\* accepts (encoding of tw.transition alone, tw.proof); checked on the step
\* proof and, when present, on the previous proof of every decoded input.
C7_VerifyClaimIsTransitionEncoding ==
    (input # Unset) =>
       /\ verify(StepProof, input.step_predicate)
             <=> Accepts(input.step_predicate, StepProof)
       /\ input.prev_recursive_proof.some =>
             (verify(PrevProof, input.moho_predicate)
                <=> Accepts(input.moho_predicate, PrevProof))

\* C8: every inclusion proof whose leaf index is not 1, or whose branch length
\* is not 2, yields InvalidMerkleProof.
C8_OnlyIndexOneAccepted ==
    (/\ Returned
     /\ \/ input.step_predicate_merkle_proof.index # 1
        \/ Len(input.step_predicate_merkle_proof.cohashes) # 2)
    => result.tag = "InvalidMerkleProof"

\* C9: in every run the host input is read exactly once and the output is
\* committed at most once; a commit happens only after the read and only after
\* verify_and_chain_transition returned Ok; a run that failed never commits.
C9_SingleReadSingleCommit ==
    /\ reads <= 1
    /\ commits <= 1
    /\ (pc # "start") => reads = 1
    /\ (commits = 1) => (reads = 1 /\ Returned /\ result.tag = "Ok")
    /\ (commits = 1) <=> (committed # Unset)
    /\ (pc = "panicked") => commits = 0
    /\ (Returned /\ result.tag # "Ok") => commits = 0

C9_Witness ==
    /\ pc = "done"
    /\ reads = 1
    /\ commits = 1
    /\ result.tag = "Ok"

\* C10: in every successful run the committed output carries the
\* moho_predicate of the input that was read and exactly the transition that
\* verify_and_chain_transition returned for that input.
C10_OutputPropagatesPredicateAndTransition ==
    (pc = "done") =>
        LET out == from_ssz_bytes(committed)
            in == from_ssz_bytes(hostInput)
        IN  /\ out.tag = "Ok"
            /\ in.tag = "Ok"
            /\ out.value.moho_predicate = in.value.moho_predicate
            /\ result = verify_and_chain_transition(in.value)
            /\ out.value.transition = result.value

C10_Witness ==
    /\ pc = "done"
    /\ input.moho_predicate # input.step_predicate
    /\ from_ssz_bytes(committed).value.moho_predicate = input.moho_predicate
    /\ from_ssz_bytes(committed).value.transition.from_state
          # from_ssz_bytes(committed).value.transition.to_state

\* The host-supplied bytes are no valid encoding of MohoRecursiveInput.
DecodeFails == from_ssz_bytes(hostInput).tag = "Err"

\* C11: the native host entry point returns Err(ExecutionError) exactly when
\* process_recursive_moho_proof failed (decode failure or a MohoError, both
\* surfaced as a panic) and Ok(()) exactly when it completed and committed; a
\* panicked run always has the closure return, and never with Ok.
C11_HostResultMirrorsOutcome ==
    /\ (hostResult # Unset) =>
          /\ hostResult \in {ExecutionError, [tag |-> "Ok"]}
          /\ (hostResult = ExecutionError)
                <=> (DecodeFails \/ (Returned /\ result.tag \in MohoError))
          /\ (hostResult = [tag |-> "Ok"])
                <=> (pc = "done" /\ commits = 1 /\ committed # Unset)
    /\ (pc = "panicked" /\ hostResult = Unset) => ENABLED NativeHostReturn

C11_Witness ==
    /\ hostResult = ExecutionError
    /\ Returned
    /\ result.tag = "InvalidIncrementalProof"
    /\ commits = 0

\* The five failure kinds the driver is said to report.
ReportedFailureKinds == MohoError \cup {"DecodeError"}

\* C12: every failure of the driver is a value of the driver's error type of
\* one of five kinds, and bytes that are no valid encoding of the recursion
\* input are reported as its decode-error variant.
C12_DecodeFailureIsDriverError ==
    (pc = "panicked") =>
        /\ panic_payload.type = "MohoError"
        /\ panic_payload.tag \in ReportedFailureKinds
        /\ DecodeFails <=> (panic_payload.tag = "DecodeError")

\* C13: chain(T1, T2) returns Ok exactly when T1.to = T2.from; an Ok result
\* is {from: T1.from, to: T2.to}; an Err holds first_end_state = T1.to and
\* second_start_state = T2.from.
C13_ChainContract ==
    (chain12 # Unset) =>
        /\ chain12.tag \in {"Ok", "Err"}
        /\ (chain12.tag = "Ok") <=> (T1.to_state = T2.from_state)
        /\ (chain12.tag = "Ok") =>
              chain12.value = [from_state |-> T1.from_state, to_state |-> T2.to_state]
        /\ (chain12.tag = "Err") =>
              /\ chain12.first_end_state = T1.to_state
              /\ chain12.second_start_state = T2.from_state

C13_Witness ==
    /\ chain12 # Unset
    /\ chain12.tag = "Err"
    /\ T1.to_state.reference = T2.from_state.reference
    /\ chain12.first_end_state # chain12.second_start_state

\* C14: when T1.to = T2.from and T2.to = T3.from both bracketings of the
\* three-fold chain succeed with equal transitions, and one bracketing fails
\* exactly when the other does.
C14_ChainAssociative ==
    (chainLeft # Unset /\ chainRight # Unset) =>
        /\ (T1.to_state = T2.from_state /\ T2.to_state = T3.from_state) =>
              /\ chainLeft.tag = "Ok"
              /\ chainRight.tag = "Ok"
              /\ chainLeft.value = chainRight.value
        /\ (chainLeft.tag = "Err") <=> (chainRight.tag = "Err")

C14_Witness ==
    /\ chainLeft # Unset /\ chainRight # Unset
    /\ chainLeft.tag = "Ok" /\ chainRight.tag = "Ok"
    /\ ~is_no_op(T1) /\ ~is_no_op(T2) /\ ~is_no_op(T3)
    /\ T1.to_state # T3.from_state
    /\ chainLeft.value = Transition(T1.from_state, T3.to_state)

\* C15: for every list of 1 to MaxLeaves leaves (the field roots of an outer
\* state among them) and every in-range index i, verify_proof accepts
\* leaves[i] under the root of the zero-padded tree with the proof generated
\* for i.
C15_GeneratedProofVerifies ==
    (verified # Unset /\ leaf_value = leaves[leaf_index + 1]) =>
        /\ verified.value = TRUE
        /\ root = compute_root(leaves)

C15_Witness ==
    /\ state_args1 = Unset
    /\ Len(leaves) = 3
    /\ leaf_index = 2
    /\ leaves[1] # leaves[2] /\ leaves[2] # leaves[3]
    /\ leaf_value = leaves[3]
    /\ verified = Returns(TRUE)

\* C16: for every outer state, field index i in {0,1,2} and value v other than
\* the i-th field root, verify_proof rejects v under the state's commitment
\* with the proof generated for i.
C16_OtherLeafRejected ==
    (state_args1 # Unset /\ verified # Unset /\ leaf_value # leaves[leaf_index + 1]) =>
        verified.value = FALSE

C16_Witness ==
    /\ state_args1 # Unset
    /\ verified = Returns(FALSE)
    /\ leaf_index = 1
    /\ leaf_value = predicate_hash(state_args2.next_predicate)
    /\ root = compute_commitment(new_state(state_args1))

\* C17: the commitment of every outer state is the root of the binary tree
\* over [inner_state root, next_predicate root, export_state root, zero
\* chunk], and the index-1 proof generated from those leaves rebuilds the
\* commitment from the next_predicate root.
C17_CommitmentIsFourLeafRoot ==
    (state_args1 # Unset /\ root # NoDigest) =>
        LET s == new_state(state_args1)
            p == create_predicate_inclusion_proof(s)
        IN  /\ root = compute_root(ssz_field_leaves(s))
            /\ p.index = 1
            /\ compute_root_no_prefix(p, predicate_hash(s.next_predicate)) = root

C17_Witness ==
    /\ state_args1 # Unset
    /\ root # NoDigest
    /\ state_args1.next_predicate.kind = "Bip340Schnorr"
    /\ state_args1.export_state.containers # <<>>

CalledContainer == find(add_entry_call.before.containers, add_entry_call.container_id)
ContainerMissing == CalledContainer = 0
ContainerFull ==
    /\ CalledContainer # 0
    /\ Len(add_entry_call.before.containers[CalledContainer].entries) >= MaxEntries

\* C19: add_entry(e, c, x) on a state without a container c leaves a fresh
\* container c with default extra-data holding x; on a state with a container
\* c that has room it appends x as the last entry of that container; either
\* way x is in container c afterwards.
C19_EntryPresentAfterAdd ==
    (add_entry_call # Unset /\ ~ContainerFull) =>
        LET before == add_entry_call.before.containers
            after == export_state.containers
            c == add_entry_call.container_id
            x == add_entry_call.entry
        IN  /\ IF ContainerMissing
                 THEN after = Append(before, ExportContainer(c, <<>>, <<x>>))
                 ELSE after = [before EXCEPT ![CalledContainer].entries =
                                  Append(before[CalledContainer].entries, x)]
            /\ \E i \in 1..Len(after) :
                  /\ after[i].container_id = c
                  /\ after[i].entries # <<>>
                  /\ after[i].entries[Len(after[i].entries)] = x

\* C20: add_entry fails only when the container is at its entry capacity;
\* that failure is a returned capacity_exceeded value, not a panic and not a
\* silent drop; and the ExportState is unchanged by a failed call.
C20_CapacityFailureIsReturned ==
    (add_entry_call # Unset) =>
        /\ (export_state = add_entry_call.before) => ContainerFull
        /\ ContainerFull =>
              /\ add_entry_call.tag = "returned"
              /\ add_entry_call.value = "capacity_exceeded"
              /\ export_state = add_entry_call.before
        /\ ~ContainerFull =>
              (add_entry_call.tag = "returned" /\ add_entry_call.value = "()")

\* The entries of list `old` are the first entries of list `new`, unchanged.
IsPrefix(old, new) ==
    /\ Len(old) <= Len(new)
    /\ \A i \in 1..Len(old) : new[i] = old[i]

\* Every container of `old` is still at its place in `new`, with the same id
\* and extra-data, and its entries are a prefix of the entries it holds now.
ExportsExtend(old, new) ==
    /\ Len(old.containers) <= Len(new.containers)
    /\ \A i \in 1..Len(old.containers) :
          /\ new.containers[i].container_id = old.containers[i].container_id
          /\ new.containers[i].common_payload = old.containers[i].common_payload
          /\ IsPrefix(old.containers[i].entries, new.containers[i].entries)

C22_ContainerIdsUnique ==
    (export_state # Unset) =>
        \A i \in 1..Len(export_state.containers) :
        \A j \in 1..Len(export_state.containers) :
            (export_state.containers[i].container_id
                = export_state.containers[j].container_id) => i = j

\* An outer state was produced (by the constructor or by the decoder).
Produced == built # Unset /\ built.tag \in {"returned", "ok"}

\* C23: a predicate key longer than MAX_PREDICATE_SIZE makes construction and
\* decoding fail, and a produced state stores exactly the bytes supplied.
C23_OverlongPredicateRejected ==
    /\ (built # Unset /\ Len(new_args.predicate_bytes) > MAX_PREDICATE_SIZE)
          => ~Produced
    /\ Produced => built.value.next_predicate = new_args.predicate_bytes

\* The decoded inner pre-state and step input of the runtime input.
InnerPreState == deserialize_borsh_state(runtime_input.inner_pre_state)
InnerInput == deserialize_borsh_input(runtime_input.input_payload)

\* The post state the step leads to: the inner post state's commitment, the
\* key and the exports of the step output.
PostMohoState ==
    MohoState(compute_state_commitment(InnerInput.value.post_state),
              extract_next_vk(InnerInput.value.output),
              extract_export_state(InnerInput.value.output))

\* The conditions on a runtime input: it decodes, its parent reference is the
\* pre-state reference, the inner pre-state's commitment is the one wrapped,
\* the step's exports are well-formed, and the claimed post-state commitment
\* is that of the post state.
RuntimeInputValid ==
    /\ InnerPreState.tag = "ok" /\ InnerInput.tag = "ok"
    /\ extract_prev_reference(InnerInput.value) = runtime_input.pre_state_ref
    /\ compute_state_commitment(InnerPreState.value)
          = runtime_input.moho_pre_state.inner_state
    /\ check_export_state_structure(extract_export_state(InnerInput.value.output))
    /\ runtime_input.post_state_commitment = compute_commitment(PostMohoState)

\* C24: on an input meeting the conditions verify_input returns the
\* attestation (pre_state_ref, commitment(moho_pre_state)) ->
\* (input reference, commitment(post state)); on any other input it panics.
C24_VerifyInputAttests ==
    (runtime_result # Unset) =>
        IF RuntimeInputValid
        THEN runtime_result =
                Returns(MohoAttestation(
                    StateRefAttestation(runtime_input.pre_state_ref,
                        compute_commitment(runtime_input.moho_pre_state)),
                    StateRefAttestation(compute_input_reference(InnerInput.value),
                        compute_commitment(PostMohoState))))
        ELSE runtime_result.tag = "Panicked"

\* C25: without a predicate update the post state keeps the pre-state's
\* next_predicate; with an update to k its next_predicate is k.
C25_PredicateKeptOrUpdated ==
    (runtime_post # Unset /\ runtime_post.tag = "Returned") =>
        LET update == extract_next_predicate(InnerInput.value.output)
        IN  runtime_post.value.next_predicate =
                IF update.some THEN update.value
                ELSE runtime_input.moho_pre_state.next_predicate

\* The step transition of the latest invocation.
LatestStep == rec_last.incremental_step_proof.transition

\* C26: along a recursion every output transition starts where the first step
\* started and ends where the most recent step ended.
C26_RecursionSpansFirstToLatest ==
    (rec_count >= 1) =>
        /\ rec_output.from_state = rec_first.from_state
        /\ rec_output.to_state = LatestStep.to_state

\* Three invocations whose steps are no no-ops: the output is neither the
\* first step nor the latest one.
C26_Witness ==
    /\ rec_count = 3
    /\ rec_last.prev_recursive_proof.some
    /\ ~is_no_op(rec_first) /\ ~is_no_op(LatestStep)
    /\ rec_output # LatestStep
    /\ rec_output.from_state # LatestStep.from_state
    /\ rec_output.from_state = rec_first.from_state

\* The four checks of verify_and_chain_transition, as the code evaluates them
\* on the input of the run.
FailsInclusion == ~inclusion_check(input)
FailsStepProof == ~step_check(input)
FailsPreviousProof == input.prev_recursive_proof.some /\ ~recursive_check(input)
FailsChain ==
    /\ input.prev_recursive_proof.some
    /\ chain(PrevProof.transition, StepProof.transition).tag # "Ok"

\* C27: the error returned is that of the first failing check in the order
\* inclusion, step proof, previous proof, chain; a result that stems from the
\* previous proof or from chaining is only returned when the inclusion and
\* step-proof checks both passed.
C27_FirstFailingCheckReported ==
    Returned =>
        /\ FailsInclusion => result.tag = "InvalidMerkleProof"
        /\ (~FailsInclusion /\ FailsStepProof) => result.tag = "InvalidIncrementalProof"
        /\ (~FailsInclusion /\ ~FailsStepProof /\ FailsPreviousProof)
              => result.tag = "InvalidRecursiveProof"
        /\ (~FailsInclusion /\ ~FailsStepProof /\ ~FailsPreviousProof /\ FailsChain)
              => result.tag = "InvalidMohoChain"
        /\ (result.tag \in {"InvalidRecursiveProof", "InvalidMohoChain"}
               \/ (result.tag = "Ok" /\ input.prev_recursive_proof.some))
              => (~FailsInclusion /\ ~FailsStepProof)

\* An input that passes the inclusion check and fails the three others.
C27_Witness ==
    /\ Returned
    /\ ~FailsInclusion /\ FailsStepProof /\ FailsPreviousProof /\ FailsChain
    /\ result.tag = "InvalidIncrementalProof"

\* The ids of a list of containers or entries are strictly increasing in
\* list order.
StrictlyIncreasing(ids) == \A i \in 1..(Len(ids) - 1) : ids[i] < ids[i + 1]

\* A container within the limits: entries and payloads within bounds, entry
\* ids strictly increasing.
ContainerWithinLimits(c) ==
    /\ Len(c.entries) <= MAX_EXPORT_ENTRIES
    /\ Len(c.common_payload) <= MAX_PAYLOAD_SIZE
    /\ StrictlyIncreasing([i \in 1..Len(c.entries) |-> c.entries[i].entry_id])
    /\ \A i \in 1..Len(c.entries) : Len(c.entries[i].payload) <= MAX_PAYLOAD_SIZE

\* An export state within the limits.
StateWithinLimits(e) ==
    /\ Len(e.containers) <= MAX_EXPORT_CONTAINERS
    /\ StrictlyIncreasing([i \in 1..Len(e.containers) |-> e.containers[i].container_id])
    /\ \A i \in 1..Len(e.containers) : ContainerWithinLimits(e.containers[i])

\* C28: check_export_state_structure returns true exactly on the states within
\* the limits; an accepted state has no two containers with the same id, and
\* the empty state is accepted.
C28_StructureCheckIsExact ==
    (structure_ok # Unset) =>
        /\ structure_ok.value = StateWithinLimits(estate)
        /\ structure_ok.value =>
              \A i, j \in 1..Len(estate.containers) :
                 estate.containers[i].container_id = estate.containers[j].container_id
                    => i = j
        /\ (estate.containers = <<>>) => structure_ok.value

\* A state with exactly MAX_EXPORT_CONTAINERS containers is accepted.
C28_Witness ==
    /\ structure_ok # Unset
    /\ Len(estate.containers) = MAX_EXPORT_CONTAINERS
    /\ structure_ok.value

\* 2^n
RECURSIVE Pow2(_)
Pow2(n) == IF n = 0 THEN 1 ELSE 2 * Pow2(n - 1)

\* The node reached after k siblings: at level k the sibling is hashed first
\* when bit k-1 of the index is set, the current node first otherwise.
FoldedNode(value, index, siblings) ==
    LET node[k \in 0..Len(siblings)] ==
            IF k = 0 THEN value
            ELSE IF (index \div Pow2(k - 1)) % 2 = 1
                 THEN hash_internal(siblings[k], node[k - 1])
                 ELSE hash_internal(node[k - 1], siblings[k])
    IN  node[Len(siblings)]

\* C29: on the same root, leaf, sibling list and index the driver's check,
\* SszFieldMerkle::verify_proof and MerkleTree::verify_proof give the same
\* verdict: whether the siblings fold to the root, sibling first at the levels
\* where the index is odd.
C29_VerifiersAgree ==
    LET expected == Returns(FoldedNode(leaf_value, proof.index, proof.cohashes) = root)
    IN  /\ (verified # Unset) => verified = expected
        /\ (tree_verified # Unset) => tree_verified = expected
        /\ (driver_verified # Unset) => driver_verified = expected

\* All three accept a three-sibling proof for a leaf that is a right child at
\* the first and third level.
C29_Witness ==
    /\ verified # Unset /\ tree_verified # Unset /\ driver_verified # Unset
    /\ verified.value /\ tree_verified.value /\ driver_verified.value
    /\ Len(proof.cohashes) = 3
    /\ proof.index = 5

\* The input of the run with its moho_predicate replaced.
WithMohoPredicate(m) == [input EXCEPT !.moho_predicate = m]

\* C30: without a previous proof the result does not depend on moho_predicate:
\* the same input under any other moho_predicate yields the same Ok transition
\* or the same error.
C30_BaseCaseIgnoresMohoPredicate ==
    (Returned /\ ~input.prev_recursive_proof.some) =>
        \A m \in PredicateKey : verify_and_chain_transition(WithMohoPredicate(m)) = result

\* A base-case run that succeeded under a moho_predicate that is not the step
\* predicate and rejects every proof offered.
C30_Witness ==
    /\ Returned
    /\ ~input.prev_recursive_proof.some
    /\ result.tag = "Ok"
    /\ input.moho_predicate.kind = "Bip340Schnorr"
    /\ input.step_predicate.kind = "AlwaysAccept"

====
